---- MODULE Spec2Model ----
(***************************************************************************)
(* A model of gps_route_optimizer.py: the closed-tour length, the          *)
(* exhaustive search, the nearest-neighbour construction, the 2-opt        *)
(* improvement loop and the optimize_route dispatcher.                     *)
(*                                                                         *)
(* Coordinates are point names 1..NPts.  The haversine distance is a       *)
(* table chosen with the input: symmetric, zero between a point and        *)
(* itself, positive between two different points.  Lists are sequences;    *)
(* the loop indices i and j keep Python's 0-based values, so element i of  *)
(* a Python list is element i+1 of the sequence.                           *)
(***************************************************************************)
EXTENDS Integers, Sequences, FiniteSets

\* ------------------------------------------------------------- bounds
MaxN == 4         \* longest freely chosen coordinates list
MaxRoute == 5     \* longest route handed directly to two_opt_improvement
NPts == 3         \* number of distinct coordinates
MaxDist == 2      \* largest distance between two coordinates
MaxIter == 2      \* largest explicit max_iterations of a direct 2-opt call

\* ---------------------------------------------------- program constants
AutoThreshold == 8            \* len(coordinates) <= 8 selects brute_force
DefaultMaxIterations == 1000  \* two_opt_improvement(route, max_iterations=1000)

Points == 1..NPts
PointPairs == {pq \in Points \X Points : pq[1] < pq[2]}
\* Two different points are near (1) or far (MaxDist) from each other.
DistValues == {1, MaxDist}
Tables == [PointPairs -> DistValues]

ValidMethods == {"auto", "brute_force", "nearest_neighbor", "2opt"}
InvalidMethods == {"bogus"}
Methods == ValidMethods \cup InvalidMethods

VARIABLES
  call,            \* the function the caller invoked
  coordinates,     \* the caller's list
  given,           \* history: the caller's list as it was passed
  method_arg,      \* the caller's method argument
  cap_arg,         \* the caller's max_iterations (direct 2-opt call)
  dist,            \* the distance table of this input
  pc,              \* position in the program
  method,          \* optimize_route's local method (reassigned under auto)
  unvisited,       \* find_shortest_route_nearest_neighbor: unvisited
  nn_route,        \* find_shortest_route_nearest_neighbor: route
  route,           \* two_opt_improvement: route
  best_route,      \* two_opt_improvement: best_route
  best_distance,   \* two_opt_improvement: best_distance
  max_iterations,  \* two_opt_improvement: max_iterations
  iteration,       \* two_opt_improvement: iteration
  i,               \* two_opt_improvement: i
  j,               \* two_opt_improvement: j
  improved,        \* two_opt_improvement: improved
  new_route,       \* two_opt_improvement: new_route (last candidate built)
  ret_route,       \* the route returned to the caller
  ret_distance,    \* the total distance returned to the caller
  start_route,     \* history: the route two_opt_improvement was called with
  scans,           \* history: scans started
  swaps,           \* history: swaps accepted
  ran              \* history: the search strategies started

vars == <<call, coordinates, given, method_arg, cap_arg, dist, pc, method, unvisited,
          nn_route, route, best_route, best_distance, max_iterations,
          iteration, i, j, improved, new_route, ret_route, ret_distance,
          start_route, scans, swaps, ran>>

inputs == <<call, coordinates, given, method_arg, cap_arg, dist>>
nn_locals == <<unvisited, nn_route>>
opt_locals == <<route, best_route, best_distance, max_iterations, iteration,
                i, j, improved, new_route>>
opt_history == <<start_route, scans, swaps>>
returned == <<ret_route, ret_distance>>

\* ------------------------------------------------------ pure functions

Lo(a, b) == IF a < b THEN a ELSE b
Hi(a, b) == IF a < b THEN b ELSE a

haversine_distance_in(d, coord1, coord2) ==
  IF coord1 = coord2 THEN 0 ELSE d[<<Lo(coord1, coord2), Hi(coord1, coord2)>>]

haversine_distance(coord1, coord2) == haversine_distance_in(dist, coord1, coord2)

RECURSIVE SumEdges(_, _)
SumEdges(r, k) ==
  IF k > Len(r) THEN 0
  ELSE haversine_distance(r[k], r[(k % Len(r)) + 1]) + SumEdges(r, k + 1)

calculate_total_distance(r) == SumEdges(r, 1)

RemoveAt(s, k) == SubSeq(s, 1, k - 1) \o SubSeq(s, k + 1, Len(s))

\* itertools.permutations(s): every ordering of s, by position, lexicographic.
RECURSIVE permutations(_)
RECURSIVE PermsFrom(_, _)
PermsFrom(s, k) ==
  IF k > Len(s) THEN <<>>
  ELSE LET rest == permutations(RemoveAt(s, k))
       IN  [m \in 1..Len(rest) |-> <<s[k]>> \o rest[m]] \o PermsFrom(s, k + 1)
permutations(s) == IF s = <<>> THEN << <<>> >> ELSE PermsFrom(s, 1)

\* The loop of lines 78-84 over permutations lo..hi: the route it holds in
\* best_route afterwards, which is the first one of the least distance (line
\* 82 replaces the held route only by a strictly shorter one).  The range is
\* halved so that the evaluation stays shallow.
RECURSIVE BruteForceLoop(_, _, _, _)
BruteForceLoop(first_point, perms, lo, hi) ==
  IF lo = hi THEN <<first_point>> \o perms[lo]
  ELSE LET mid == (lo + hi) \div 2
           earlier == BruteForceLoop(first_point, perms, lo, mid)
           later == BruteForceLoop(first_point, perms, mid + 1, hi)
       IN  IF calculate_total_distance(later) < calculate_total_distance(earlier)
           THEN later
           ELSE earlier

\* The search with the comparison of line 82 turned round: it keeps the
\* first route of the greatest distance.
RECURSIVE BruteForceLoop_longest(_, _, _, _)
BruteForceLoop_longest(first_point, perms, lo, hi) ==
  IF lo = hi THEN <<first_point>> \o perms[lo]
  ELSE LET mid == (lo + hi) \div 2
           earlier == BruteForceLoop_longest(first_point, perms, lo, mid)
           later == BruteForceLoop_longest(first_point, perms, mid + 1, hi)
       IN  IF calculate_total_distance(later) > calculate_total_distance(earlier)
           THEN later
           ELSE earlier

find_longest_route_brute_force(c) ==
  IF Len(c) <= 1 THEN c
  ELSE LET perms == permutations(Tail(c))
       IN  BruteForceLoop_longest(c[1], perms, 1, Len(perms))

find_shortest_route_brute_force(c) ==
  IF Len(c) <= 1 THEN c
  ELSE LET perms == permutations(Tail(c))
       IN  BruteForceLoop(c[1], perms, 1, Len(perms))

\* min() keeping the last minimal element instead of the first.
MinIndex_last(u, current_point) ==
  CHOOSE k \in 1..Len(u) :
    /\ \A m \in 1..Len(u) :
         haversine_distance(current_point, u[k])
           <= haversine_distance(current_point, u[m])
    /\ \A m \in (k + 1)..Len(u) :
         haversine_distance(current_point, u[m])
           > haversine_distance(current_point, u[k])

\* min(unvisited, key=distance from current_point): the first minimal element.
MinIndex(u, current_point) ==
  CHOOSE k \in 1..Len(u) :
    /\ \A m \in 1..Len(u) :
         haversine_distance(current_point, u[k])
           <= haversine_distance(current_point, u[m])
    /\ \A m \in 1..(k - 1) :
         haversine_distance(current_point, u[m])
           > haversine_distance(current_point, u[k])

\* A removal that drops every element equal to x.
SelectOthers(u, x) == SelectSeq(u, LAMBDA y : y # x)

\* list.remove(x): drops the first element equal to x.
ListRemove(u, x) ==
  RemoveAt(u, CHOOSE k \in 1..Len(u) :
                 u[k] = x /\ \A m \in 1..(k - 1) : u[m] # x)

\* new_route[a:b+1] = reversed(new_route[a:b+1]), a and b 0-based.
ReverseSlice(r, a, b) ==
  [k \in 1..Len(r) |-> IF a + 1 <= k /\ k <= b + 1 THEN r[a + b + 2 - k] ELSE r[k]]


\* The candidate two_opt_improvement builds for the pair (i, j), lines 136-137.
TwoOptCandidate(r, a, b) == ReverseSlice(r, a, b)

\* The pair the nested loops of lines 130-131 visit after (a, b) in a list of
\* length n: <<i, j>>, or <<n, n>> when the loops are exhausted.
NextPair(n, a, b) ==
  IF b + 1 <= n - 1 THEN <<a, b + 1>>
  ELSE IF a + 3 <= n - 1 THEN <<a + 1, a + 3>>
  ELSE <<n, n>>

\* --------------------------------------------------------------- inputs

Max(S) == CHOOSE x \in S : \A y \in S : y <= x

\* Lists of length n over Points, points named in order of first appearance
\* (the table ranges over every table, so renaming points loses no input).
Lists(n) ==
  {s \in [1..n -> Points] :
     \A k \in 1..n : s[k] <= 1 + Max({0} \cup {s[m] : m \in 1..(k - 1)})}

SmallLists == UNION {Lists(n) : n \in 0..MaxN}
Routes == UNION {Lists(n) : n \in 0..MaxRoute}

\* Lists around the auto threshold: the points repeated in turn.
ThresholdLists ==
  {[k \in 1..n |-> ((k - 1) % NPts) + 1] : n \in {AutoThreshold, AutoThreshold + 1}}

Caps == (0..MaxIter) \cup {DefaultMaxIterations}

Init ==
  /\ dist \in Tables
  /\ \/ /\ call = "optimize_route"
        /\ \/ coordinates \in SmallLists /\ method_arg \in Methods
           \/ coordinates \in ThresholdLists /\ method_arg = "auto"
        /\ cap_arg = DefaultMaxIterations
     \/ /\ call = "find_shortest_route_nearest_neighbor"
        /\ coordinates \in SmallLists
        /\ method_arg = "nearest_neighbor"
        /\ cap_arg = DefaultMaxIterations
     \/ /\ call = "two_opt_improvement"
        /\ coordinates \in Routes
        /\ method_arg = "2opt"
        /\ cap_arg \in Caps
  /\ given = coordinates
  /\ pc = call
  /\ method = method_arg
  /\ unvisited = <<>>
  /\ nn_route = <<>>
  /\ route = IF call = "two_opt_improvement" THEN coordinates ELSE <<>>
  /\ best_route = <<>>
  /\ best_distance = 0
  /\ max_iterations = cap_arg
  /\ iteration = 0
  /\ i = 0
  /\ j = 0
  /\ improved = FALSE
  /\ new_route = <<>>
  /\ ret_route = <<>>
  /\ ret_distance = 0
  /\ start_route = IF call = "two_opt_improvement" THEN coordinates ELSE <<>>
  /\ scans = 0
  /\ swaps = 0
  /\ ran = {}

\* -------------------------------------------------------------- actions

\* optimize_route, lines 185-205: the trivial inputs, the auto rule, dispatch.
\* The early return with the one-element case missing.
TrivialInput_empty_only(c) == c = <<>>

\* Lines 185 and 188: the inputs answered before the method is looked at.
TrivialInput(c) == c = <<>> \/ Len(c) = 1

\* The auto rule with the threshold itself sent to 2-opt.
AutoMethod_strict(n) == IF n < AutoThreshold THEN "brute_force" ELSE "2opt"

\* Lines 193-196.
AutoMethod(n) == IF n <= AutoThreshold THEN "brute_force" ELSE "2opt"

\* The dispatch with 2-opt as the branch for every other method.
Dispatch_default_2opt(m) ==
  IF m \in {"brute_force", "nearest_neighbor"} THEN m ELSE "2opt"

\* Lines 198-205: the branch taken for method m.
Dispatch(m) ==
  IF m \in {"brute_force", "nearest_neighbor", "2opt"} THEN m ELSE "raise"

Target(m) ==
  CASE m = "brute_force" -> "find_shortest_route_brute_force"
    [] m = "nearest_neighbor" -> "find_shortest_route_nearest_neighbor"
    [] m = "2opt" -> "find_shortest_route_nearest_neighbor"
    [] OTHER -> "raised"

OptimizeRoute ==
  /\ pc = "optimize_route"
  /\ IF TrivialInput(coordinates)
     THEN /\ ret_route' = IF coordinates = <<>> THEN <<>> ELSE coordinates
          /\ ret_distance' = 0
          /\ pc' = "done"
          /\ method' = method
     ELSE /\ method' = IF method = "auto" THEN AutoMethod(Len(coordinates))
                       ELSE method
          /\ pc' = Target(Dispatch(method'))
          /\ UNCHANGED returned
  /\ UNCHANGED <<inputs, nn_locals, opt_locals, opt_history, ran>>

\* find_shortest_route_brute_force, lines 67-86, then line 199.
BruteForce ==
  /\ pc = "find_shortest_route_brute_force"
  /\ ran' = ran \cup {"brute_force"}
  /\ ret_route' = find_shortest_route_brute_force(coordinates)
  /\ pc' = "total_distance"
  /\ UNCHANGED <<inputs, method, nn_locals, opt_locals, opt_history, ret_distance>>

\* find_shortest_route_nearest_neighbor, lines 99-103.
NNStart ==
  /\ pc = "find_shortest_route_nearest_neighbor"
  /\ ran' = ran \cup {"nearest_neighbor"}
  /\ IF Len(coordinates) <= 1
     THEN /\ ret_route' = coordinates
          /\ pc' = "done"
          /\ UNCHANGED nn_locals
     ELSE /\ unvisited' = Tail(coordinates)
          /\ nn_route' = <<Head(coordinates)>>
          /\ pc' = "nn_loop"
          /\ UNCHANGED ret_route
  /\ UNCHANGED <<inputs, method, opt_locals, opt_history, ret_distance>>

\* One pass of the while loop, lines 105-109.
NNStep ==
  /\ pc = "nn_loop"
  /\ unvisited # <<>>
  /\ LET current_point == nn_route[Len(nn_route)]
         nearest_point == unvisited[MinIndex(unvisited, current_point)]
     IN  /\ nn_route' = Append(nn_route, nearest_point)
         /\ unvisited' = ListRemove(unvisited, nearest_point)
  /\ UNCHANGED <<inputs, pc, method, opt_locals, opt_history, returned, ran>>

\* Line 111, and the caller's next line: 201, or 167-170, or the direct caller.
NNReturn ==
  /\ pc = "nn_loop"
  /\ unvisited = <<>>
  /\ IF call = "optimize_route" /\ method = "2opt"
     THEN /\ route' = nn_route
          /\ start_route' = nn_route
          /\ max_iterations' = DefaultMaxIterations
          /\ pc' = "two_opt_improvement"
          /\ UNCHANGED ret_route
     ELSE /\ ret_route' = nn_route
          /\ pc' = IF call = "optimize_route" THEN "total_distance" ELSE "done"
          /\ UNCHANGED <<route, start_route, max_iterations>>
  /\ UNCHANGED <<inputs, method, nn_locals, best_route, best_distance,
                 iteration, i, j, improved, new_route, scans, swaps,
                 ret_distance, ran>>

\* The range of line 127 with one value too many.
InRange_inclusive(it, cap) == it <= cap

\* Line 127: range(max_iterations) has a value left for iteration.
InRange(it, cap) == it < cap

\* The comparison of line 141 turned round.
Improves_longer(new_distance, held_distance) == new_distance > held_distance

\* Line 141: the candidate replaces the best route.
Improves(new_distance, held_distance) == new_distance < held_distance

\* two_opt_improvement, lines 124-125.
TwoOptStart ==
  /\ pc = "two_opt_improvement"
  /\ ran' = ran \cup {"2opt"}
  /\ best_route' = route
  /\ best_distance' = calculate_total_distance(route)
  /\ iteration' = 0
  /\ pc' = "for_iteration"
  /\ UNCHANGED <<inputs, method, nn_locals, route, max_iterations, i, j,
                 improved, new_route, opt_history, returned>>

\* Line 127: the next scan starts (line 128), or the range is exhausted.
ScanBegin ==
  /\ pc = "for_iteration"
  /\ IF InRange(iteration, max_iterations)
     THEN /\ improved' = FALSE
          /\ scans' = scans + 1
          /\ IF Len(route) >= 3
             THEN i' = 0 /\ j' = 2 /\ pc' = "for_j"
             ELSE i' = Len(route) /\ j' = Len(route) /\ pc' = "scan_end"
     ELSE /\ pc' = "return_best_route"
          /\ UNCHANGED <<improved, scans, i, j>>
  /\ UNCHANGED <<inputs, method, nn_locals, route, best_route, best_distance,
                 max_iterations, iteration, new_route, start_route, swaps,
                 returned, ran>>

\* One pass of the inner loop body, lines 132-146, and the move to the next pair.
Examine ==
  /\ pc = "for_j"
  /\ LET n == Len(route)
         candidate == TwoOptCandidate(route, i, j)
         new_distance == calculate_total_distance(candidate)
         next == NextPair(n, i, j)
     IN  IF j = n - 1 /\ i = 0
         THEN /\ i' = next[1]
              /\ j' = next[2]
              /\ pc' = IF next[1] = n THEN "scan_end" ELSE "for_j"
              /\ UNCHANGED <<route, best_route, best_distance, improved,
                             new_route, swaps>>
         ELSE /\ new_route' = candidate
              /\ IF Improves(new_distance, best_distance)
                 THEN /\ best_route' = candidate
                      /\ best_distance' = new_distance
                      /\ route' = candidate
                      /\ improved' = TRUE
                      /\ swaps' = swaps + 1
                      /\ pc' = "scan_end"
                      /\ UNCHANGED <<i, j>>
                 ELSE /\ i' = next[1]
                      /\ j' = next[2]
                      /\ pc' = IF next[1] = n THEN "scan_end" ELSE "for_j"
                      /\ UNCHANGED <<route, best_route, best_distance,
                                     improved, swaps>>
  /\ UNCHANGED <<inputs, method, nn_locals, max_iterations, iteration,
                 start_route, scans, returned, ran>>

\* Lines 151-152: a scan without a swap ends the loop; otherwise the next
\* iteration of line 127.
ScanEnd ==
  /\ pc = "scan_end"
  /\ IF improved
     THEN iteration' = iteration + 1 /\ pc' = "for_iteration"
     ELSE iteration' = iteration /\ pc' = "return_best_route"
  /\ UNCHANGED <<inputs, method, nn_locals, route, best_route, best_distance,
                 max_iterations, i, j, improved, new_route, opt_history,
                 returned, ran>>

\* Line 154, and the caller's next line: 172 and 203, or the direct caller.
TwoOptReturn ==
  /\ pc = "return_best_route"
  /\ ret_route' = best_route
  /\ pc' = IF call = "optimize_route" THEN "total_distance" ELSE "done"
  /\ UNCHANGED <<inputs, method, nn_locals, opt_locals, opt_history,
                 ret_distance, ran>>

\* optimize_route, lines 207-209.
TotalDistance ==
  /\ pc = "total_distance"
  /\ ret_distance' = calculate_total_distance(ret_route)
  /\ pc' = "done"
  /\ UNCHANGED <<inputs, method, nn_locals, opt_locals, opt_history,
                 ret_route, ran>>

Next ==
  \/ OptimizeRoute
  \/ BruteForce
  \/ NNStart
  \/ NNStep
  \/ NNReturn
  \/ TwoOptStart
  \/ ScanBegin
  \/ Examine
  \/ ScanEnd
  \/ TwoOptReturn
  \/ TotalDistance

Spec == Init /\ [][Next]_vars


\* ------------------------------------------------- claims: the dispatcher

Range(s) == {s[k] : k \in 1..Len(s)}

Count(s, x) == Cardinality({k \in 1..Len(s) : s[k] = x})

IsPermutationOf(a, b) ==
  /\ Len(a) = Len(b)
  /\ \A x \in Range(a) \cup Range(b) : Count(a, x) = Count(b, x)

RemoveFirst(s, x) ==
  IF x \notin Range(s) THEN s
  ELSE LET k == CHOOSE m \in 1..Len(s) :
                  s[m] = x /\ \A q \in 1..(m - 1) : s[q] # x
       IN  [m \in 1..(Len(s) - 1) |-> IF m < k THEN s[m] ELSE s[m + 1]]

\* Every ordering of the elements of s, as a set.
RECURSIVE Orderings(_)
Orderings(s) ==
  IF s = <<>> THEN {<<>>}
  ELSE UNION {{<<x>> \o t : t \in Orderings(RemoveFirst(s, x))} : x \in Range(s)}

\* The tours that keep c[1] first and permute the rest.
Tours(c) == {<<c[1]>> \o t : t \in Orderings(Tail(c))}

ExactReturned ==
  /\ call = "optimize_route"
  /\ method = "brute_force"
  /\ pc = "done"
  /\ Len(coordinates) >= 2

\* C1: optimize_route(coordinates, brute_force) on two or more coordinates
\* returns a route that starts with coordinates[0] and is one of the tours
\* that keep coordinates[0] first; no such tour is shorter than it, and the
\* distance returned is the closed-tour distance of that route.
C1_ExactIsOptimal ==
  ExactReturned =>
    /\ ret_route[1] = coordinates[1]
    /\ ret_route \in Tours(coordinates)
    /\ ret_distance = calculate_total_distance(ret_route)
    /\ \A t \in Tours(coordinates) : ret_distance <= calculate_total_distance(t)

C1_Witness ==
  /\ ExactReturned
  /\ method_arg = "brute_force"
  /\ Len(coordinates) >= 4
  /\ ret_distance < calculate_total_distance(coordinates)

InvalidCall ==
  /\ call = "optimize_route"
  /\ method_arg \notin ValidMethods

Failed ==
  /\ pc \in {"optimize_route", "raised"}
  /\ ran = {}
  /\ ret_route = <<>>
  /\ ret_distance = 0

\* C2 as stated: on every non-empty list, a method outside the valid ones
\* makes optimize_route fail (it never returns a result) before any search
\* strategy has started.
C2_Original ==
  (InvalidCall /\ coordinates # <<>>) => Failed

\* C2 as amended: on every list of two or more coordinates, a method outside
\* the valid ones makes optimize_route fail (it never returns a result)
\* before any search strategy has started; on a one-element list it returns
\* that list and 0 without looking at the method.
C2_InvalidMethod ==
  /\ (InvalidCall /\ Len(coordinates) >= 2) => Failed
  /\ (InvalidCall /\ Len(coordinates) = 1 /\ pc # "optimize_route") =>
       /\ pc = "done"
       /\ ret_route = coordinates
       /\ ret_distance = 0
       /\ ran = {}

C2_Witness ==
  /\ InvalidCall
  /\ Len(coordinates) >= 2
  /\ pc = "raised"

AutoCall ==
  /\ call = "optimize_route"
  /\ method_arg = "auto"
  /\ Len(coordinates) >= 2
  /\ pc # "optimize_route"

\* C5: under auto with two or more coordinates the method run is brute_force
\* exactly when there are at most 8 coordinates and 2opt (nearest neighbour,
\* then 2-opt on its route) exactly when there are 9 or more; the result is
\* the one that strategy produced, with its closed-tour distance.
C5_AutoSelects ==
  AutoCall =>
    /\ method \in {"brute_force", "2opt"}
    /\ method = "brute_force" <=> Len(coordinates) <= 8
    /\ method = "2opt" <=> Len(coordinates) >= 9
    /\ ran \subseteq (IF Len(coordinates) <= 8 THEN {"brute_force"}
                      ELSE {"nearest_neighbor", "2opt"})
    /\ pc = "done" =>
         /\ ran = (IF Len(coordinates) <= 8 THEN {"brute_force"}
                   ELSE {"nearest_neighbor", "2opt"})
         /\ Len(coordinates) >= 9 =>
              (start_route = nn_route /\ ret_route = best_route)
         /\ ret_distance = calculate_total_distance(ret_route)

C5_Witness ==
  /\ AutoCall
  /\ pc = "done"
  /\ Len(coordinates) = 9
  /\ method = "2opt"
  /\ scans >= 1

TrivialCall ==
  /\ call = "optimize_route"
  /\ method_arg \in ValidMethods
  /\ Len(coordinates) <= 1
  /\ pc # "optimize_route"

\* C6: for every valid method, optimize_route returns ([], 0) for the empty
\* list and ([p], 0) for a one-element list; it raises nothing and starts no
\* search strategy.
C6_TrivialInputs ==
  TrivialCall =>
    /\ pc = "done"
    /\ ret_route = coordinates
    /\ ret_distance = 0
    /\ ran = {}

C6_Witness ==
  /\ TrivialCall
  /\ Len(coordinates) = 1
  /\ method_arg = "2opt"
  /\ ret_route = coordinates


\* ------------------------------------------------------ claims: 2-opt

\* two_opt_improvement has run lines 124-125.
TwoOptStarted == "2opt" \in ran

\* two_opt_improvement has left its loop.
TwoOptStopped ==
  /\ TwoOptStarted
  /\ pc \in {"return_best_route", "total_distance", "done"}

C3_State ==
  TwoOptStarted =>
    /\ best_distance = calculate_total_distance(best_route)
    /\ best_distance <= calculate_total_distance(start_route)
    /\ pc \in {"total_distance", "done"} =>
         /\ ret_route = best_route
         /\ calculate_total_distance(ret_route)
              <= calculate_total_distance(start_route)

C3_Step == TwoOptStarted => best_distance' <= best_distance

\* C3: in two_opt_improvement the tracked best distance is the closed-tour
\* distance of the tracked best route, it never goes up from one step to the
\* next (a candidate examined, a swap accepted), and the route returned is no
\* longer than the route the function was called with.
C3_NeverIncreases == [](C3_State) /\ [][C3_Step]_vars

C3_Witness ==
  /\ TwoOptStopped
  /\ pc = "done"
  /\ swaps >= 2
  /\ calculate_total_distance(ret_route) < calculate_total_distance(start_route)

\* The tours a 2-opt move makes of r: a segment of two or more elements
\* reversed in place.
TwoOptMoves(r) ==
  {ReverseSlice(r, a, b) : a \in 0..(Len(r) - 1), b \in 0..(Len(r) - 1)}

\* C4: when two_opt_improvement stops after a full scan that accepted no
\* swap, no 2-opt move on the route returned gives a strictly shorter tour.
C4_LocalOptimum ==
  (TwoOptStopped /\ pc = "done" /\ scans >= 1 /\ ~improved) =>
    \A t \in TwoOptMoves(ret_route) :
      calculate_total_distance(t) >= calculate_total_distance(ret_route)

Accepted == route' = new_route' /\ best_route' = new_route' /\ pc' = "scan_end"

\* C7: every candidate examined for a pair (i, j), i < j, is the current
\* route with positions i+1 through j reversed; it is accepted, at once,
\* exactly when it is strictly shorter than the best so far; otherwise the
\* scan moves on, j ascending within i ascending.
C7_Candidates ==
  [][(pc = "for_j" /\ ~(i = 0 /\ j = Len(route) - 1)) =>
       /\ i < j
       /\ new_route' = ReverseSlice(route, i + 1, j)
       /\ IF calculate_total_distance(new_route') < best_distance
          THEN Accepted /\ improved'
          ELSE /\ route' = route
               /\ \/ pc' = "scan_end"
                  \/ i' = i /\ j' = j + 1
                  \/ i' = i + 1 /\ j' > i']_vars

C8_State ==
  /\ scans <= max_iterations
  /\ swaps <= scans
  /\ scans <= swaps + 1
  /\ pc = "for_iteration" => (swaps = scans /\ iteration = scans)
  /\ pc = "for_j" => (~improved /\ swaps = scans - 1)
  /\ TwoOptStopped =>
       \/ scans >= 1 /\ ~improved /\ swaps = scans - 1
       \/ scans = max_iterations /\ swaps = scans
  /\ (TwoOptStopped /\ max_iterations = 0) =>
       /\ scans = 0
       /\ best_route = start_route
       /\ pc = "done" => ret_route = start_route

TwoOptPcs ==
  {"two_opt_improvement", "for_iteration", "for_j", "scan_end",
   "return_best_route"}

\* A bound on the steps two_opt_improvement has left: the scans not yet
\* started, each at most ScanCost steps, and the rest of the scan under way.
ScanCost == Len(route) * Len(route) + 2 * Len(route) + 4

StepsLeft ==
  CASE pc = "two_opt_improvement" -> (max_iterations + 1) * ScanCost
    [] pc = "for_iteration" -> (max_iterations - iteration) * ScanCost + 2
    [] pc = "for_j" ->
         (max_iterations - iteration - 1) * ScanCost + 4
           + (Len(route) - i) * Len(route) + (Len(route) - j)
    [] pc = "scan_end" -> (max_iterations - iteration - 1) * ScanCost + 3
    [] pc = "return_best_route" -> 1
    [] OTHER -> 0

\* Each position of two_opt_improvement has its step (TwoOptStart, ScanBegin,
\* Examine, ScanEnd, TwoOptReturn), guarded by the position alone; Examine
\* needs its pair to lie inside the route.
C8_Progress ==
  pc \in TwoOptPcs =>
    /\ StepsLeft >= 1
    /\ iteration <= max_iterations
    /\ pc = "for_j" => (0 <= i /\ i + 2 <= j /\ j <= Len(route) - 1)

C8_Step == pc \in TwoOptPcs => StepsLeft' < StepsLeft

\* C8: two_opt_improvement ends (every step inside it lowers a bound on the
\* steps left, which stays positive until it returns); it starts at most
\* max_iterations scans and accepts at most one swap in each; a new scan
\* starts only when every scan before it accepted a swap, and the loop is
\* left only after a scan without a swap or after max_iterations scans; with
\* max_iterations = 0 the route returned is the route it was called with.
C8_Terminates == [](C8_State /\ C8_Progress) /\ [][C8_Step]_vars

C8_Witness ==
  /\ call = "two_opt_improvement"
  /\ pc = "done"
  /\ max_iterations = 2
  /\ scans = 2
  /\ swaps = 2


\* -------------------------------------------- claims: nearest neighbour

\* The input order with the elements placed at positions 1..k-1 of r taken
\* out; r[1] is the head of the input.
RECURSIVE UnvisitedBefore(_, _, _)
UnvisitedBefore(c, r, k) ==
  IF k <= 2 THEN Tail(c)
  ELSE RemoveFirst(UnvisitedBefore(c, r, k - 1), r[k - 1])

\* Position k of r holds the first element of u nearest to r[k-1].
FirstNearest(r, k, u) ==
  \E p \in 1..Len(u) :
    /\ u[p] = r[k]
    /\ \A m \in 1..Len(u) :
         haversine_distance(r[k - 1], u[p]) <= haversine_distance(r[k - 1], u[m])
    /\ \A m \in 1..(p - 1) :
         haversine_distance(r[k - 1], u[m]) > haversine_distance(r[k - 1], u[p])

NNBuilding ==
  /\ "nearest_neighbor" \in ran
  /\ Len(coordinates) >= 2

\* C9: the nearest-neighbour route starts with coordinates[0]; every later
\* position holds a coordinate nearest to the one before it among those not
\* yet placed, and of several nearest ones the first in the unvisited list,
\* which is the input order with the placed elements taken out; a
\* one-element input is returned as it is.
C9_NearestNeighbour ==
  /\ NNBuilding =>
       /\ nn_route[1] = coordinates[1]
       /\ \A k \in 2..Len(nn_route) :
            FirstNearest(nn_route, k, UnvisitedBefore(coordinates, nn_route, k))
       /\ unvisited = UnvisitedBefore(coordinates, nn_route, Len(nn_route) + 1)
       /\ pc # "nn_loop" => Len(nn_route) = Len(coordinates)
       /\ (pc = "done" /\ method = "nearest_neighbor") => ret_route = nn_route
  /\ ( /\ call = "find_shortest_route_nearest_neighbor"
       /\ Len(coordinates) = 1
       /\ pc = "done" ) => ret_route = coordinates

C9_Witness ==
  /\ NNBuilding
  /\ call = "find_shortest_route_nearest_neighbor"
  /\ pc = "done"
  /\ Len(coordinates) >= 4
  /\ \E k \in 2..Len(nn_route) :
       \E x \in Range(UnvisitedBefore(coordinates, nn_route, k)) :
         /\ x # nn_route[k]
         /\ haversine_distance(nn_route[k - 1], x)
              = haversine_distance(nn_route[k - 1], nn_route[k])

\* ------------------------------------------------- claims: permutation

\* C10: the nearest-neighbour partial route together with the unvisited
\* list, the 2-opt current, best and candidate routes, and the route
\* returned by any call that returns hold exactly the elements of the list
\* the caller passed, duplicates counted; the caller's list stays as passed.
C10_Permutation ==
  /\ coordinates = given
  /\ pc = "nn_loop" => IsPermutationOf(nn_route \o unvisited, given)
  /\ pc \in TwoOptPcs => IsPermutationOf(route, given)
  /\ TwoOptStarted =>
       /\ IsPermutationOf(best_route, given)
       /\ new_route # <<>> => IsPermutationOf(new_route, given)
  /\ pc \in {"total_distance", "done"} => IsPermutationOf(ret_route, given)

C10_Witness ==
  /\ call = "optimize_route"
  /\ method_arg = "2opt"
  /\ pc = "done"
  /\ Len(coordinates) >= 4
  /\ \E k \in 1..Len(coordinates) :
       \E m \in 1..Len(coordinates) : k # m /\ coordinates[k] = coordinates[m]
  /\ ret_route # coordinates

====
